---- MODULE Spec2Model ----
(***************************************************************************)
(* Lempel-Ziv decomposition and complexity of a symbol sequence, as        *)
(* computed by lempel_ziv_complexity.py.                                   *)
(*                                                                         *)
(* A Python sequence value is a record [kind, items]: kind is the Python   *)
(* type ("str", "tuple", "list", "ndarray"), items the symbols.  A dict is *)
(* the insertion-ordered sequence of its [key, value] entries.             *)
(*                                                                         *)
(* The module's two functions are run one after the other by a caller on   *)
(* an input s and on the concatenation s + t:                              *)
(*   call 1: lempel_ziv_decomposition(s)                                   *)
(*   call 2: lempel_ziv_complexity_slow(s)                                 *)
(*   call 3: lempel_ziv_decomposition(s + t)                               *)
(*   call 4: lempel_ziv_complexity_slow(s + t)                             *)
(* One action is one pass through the body of the `while True` loop.       *)
(***************************************************************************)
EXTENDS Integers, Sequences, FiniteSets, TLC

VARIABLES
    s,            \* the caller's input sequence
    t,            \* the suffix the caller appends for calls 3 and 4
    call,         \* number of the call being executed (0: none yet)
    sequence,     \* parameter `sequence` of the running call
    sub_strings,  \* local dict `sub_strings`
    ind,          \* local `ind`
    inc,          \* local `inc`
    pc,           \* "idle", "loop", "done" (returned) or "raised"
    ret           \* outcome of each call: [status, value]

vars == <<s, t, call, sequence, sub_strings, ind, inc, pc, ret>>

-----------------------------------------------------------------------------
(* Bounds of the generated inputs *)

MaxLen == 5
MaxSuffix == 3

Alphabet == {0, 1}

SeqsUpTo(N) == UNION {[1..k -> Alphabet] : k \in 0..N}

-----------------------------------------------------------------------------
(* Python values *)

Kinds == {"str", "tuple", "list", "ndarray"}

\* hash(x) succeeds for str and tuple, raises TypeError for list and ndarray
Hashable(x) == x.kind \in {"str", "tuple"}

Py(kind, items) == [kind |-> kind, items |-> items]

Str(items) == Py("str", items)

len(x) == Len(x.items)

Min(a, b) == IF a <= b THEN a ELSE b

\* x[a:b] for 0 <= a <= b: a value of the same kind, clamped to len(x)
Slice(x, a, b) == Py(x.kind, SubSeq(x.items, a + 1, Min(b, len(x))))

\* the sequence x followed by the symbols `items`, of the kind of x
Concat(x, items) == Py(x.kind, x.items \o items)

\* k in d
DictContainsAlwaysMiss(d, k) == FALSE

DictContains(d, k) == \E i \in 1..Len(d) : d[i].key = k

\* d[k] = v
DictSetItem(d, k, v) ==
    IF \E i \in 1..Len(d) : d[i].key = k
    THEN [i \in 1..Len(d) |-> IF d[i].key = k THEN [key |-> k, value |-> v] ELSE d[i]]
    ELSE Append(d, [key |-> k, value |-> v])

\* list(d): the keys in insertion order (the order the doctests expect)
DictKeysReversed(d) == [i \in 1..Len(d) |-> d[Len(d) + 1 - i].key]

DictKeys(d) == [i \in 1..Len(d) |-> d[i].key]

\* len(d)
DictLen(d) == Len(d)

-----------------------------------------------------------------------------
(* The caller *)

\* the function each call runs
CallFns ==
    << "lempel_ziv_decomposition", "lempel_ziv_complexity_slow",
       "lempel_ziv_decomposition", "lempel_ziv_complexity_slow" >>

NumCalls == Len(CallFns)

CallFn(c) == CallFns[c]

CallArg(c) == IF c \in {1, 2} THEN s ELSE Concat(s, t)

NotCalled == [status |-> "none", value |-> 0]

\* The doctest inputs
Lit16 == <<1,0,0,1,1,1,1,0,1,1,0,0,0,0,1,0>>
LitAlt == <<1,0,1,0,1,0,1,0,1,0,1,0,1,0,1,0>>
Lit22 == <<1,0,0,1,1,1,1,0,1,1,0,0,0,0,1,0,0,0,0,0,1,0>>
Lit24 == <<1,0,0,1,1,1,1,0,1,1,0,0,0,0,1,0,0,0,0,0,1,0,1,0>>

Literals == {Lit16, LitAlt, Lit22, Lit24}

Inputs ==
    {<<Py(k, x), y>> : k \in Kinds, x \in SeqsUpTo(MaxLen), y \in SeqsUpTo(MaxSuffix)}
    \cup {<<Py(k, x), x>> : k \in Kinds, x \in SeqsUpTo(MaxLen)}
    \cup {<<Str(x), <<>> >> : x \in Literals}

Init ==
    /\ \E in \in Inputs : s = in[1] /\ t = in[2]
    /\ call = 0
    /\ sequence = Str(<<>>)
    /\ sub_strings = <<>>
    /\ ind = 0
    /\ inc = 1
    /\ pc = "idle"
    /\ ret = [c \in 1..NumCalls |-> NotCalled]

\* Function entry: sub_strings = {}; n = len(sequence); ind = 0; inc = 1
Call ==
    /\ pc \in {"idle", "done", "raised"}
    /\ call < NumCalls
    /\ call' = call + 1
    /\ sequence' = CallArg(call + 1)
    /\ sub_strings' = <<>>
    /\ ind' = 0
    /\ inc' = 1
    /\ pc' = "loop"
    /\ UNCHANGED <<s, t, ret>>

n == len(sequence)

fn == IF call = 0 THEN "none" ELSE CallFn(call)

-----------------------------------------------------------------------------
(* The loop body, shared tests *)

\* if ind + inc > len(sequence): break
LoopExitOffByOne(seq, i, c) == i + c >= len(seq)

LoopExit(seq, i, c) == i + c > len(seq)

\* sub_str = sequence[ind : ind + inc]
sub_str == Slice(sequence, ind, ind + inc)

Returned(v) == [status |-> "returned", value |-> v]

Raised(e) == [status |-> "raised", value |-> e]

-----------------------------------------------------------------------------
(* lempel_ziv_decomposition *)

\* break; return list(sub_strings)
decomposition_break ==
    /\ pc = "loop" /\ fn = "lempel_ziv_decomposition"
    /\ LoopExit(sequence, ind, inc)
    /\ pc' = "done"
    /\ ret' = [ret EXCEPT ![call] = Returned(Py("list", DictKeys(sub_strings)))]
    /\ UNCHANGED <<s, t, call, sequence, sub_strings, ind, inc>>

\* `sub_str in sub_strings` hashes sub_str: TypeError for an unhashable slice
decomposition_raise ==
    /\ pc = "loop" /\ fn = "lempel_ziv_decomposition"
    /\ ~LoopExit(sequence, ind, inc)
    /\ ~Hashable(sub_str)
    /\ pc' = "raised"
    /\ ret' = [ret EXCEPT ![call] = Raised("TypeError")]
    /\ UNCHANGED <<s, t, call, sequence, sub_strings, ind, inc>>

\* if sub_str in sub_strings: inc += 1
decomposition_hit_skip ==
    /\ pc = "loop" /\ fn = "lempel_ziv_decomposition"
    /\ ~LoopExit(sequence, ind, inc)
    /\ Hashable(sub_str)
    /\ DictContains(sub_strings, sub_str)
    /\ inc' = inc + 2
    /\ UNCHANGED <<s, t, call, sequence, sub_strings, ind, pc, ret>>

decomposition_hit ==
    /\ pc = "loop" /\ fn = "lempel_ziv_decomposition"
    /\ ~LoopExit(sequence, ind, inc)
    /\ Hashable(sub_str)
    /\ DictContains(sub_strings, sub_str)
    /\ inc' = inc + 1
    /\ UNCHANGED <<s, t, call, sequence, sub_strings, ind, pc, ret>>

\* else: sub_strings[sub_str] = 0; ind += inc; inc = 1
decomposition_insert_no_reset ==
    /\ pc = "loop" /\ fn = "lempel_ziv_decomposition"
    /\ ~LoopExit(sequence, ind, inc)
    /\ Hashable(sub_str)
    /\ ~DictContains(sub_strings, sub_str)
    /\ sub_strings' = DictSetItem(sub_strings, sub_str, 0)
    /\ ind' = ind + inc
    /\ inc' = inc
    /\ UNCHANGED <<s, t, call, sequence, pc, ret>>

decomposition_insert_step_one ==
    /\ pc = "loop" /\ fn = "lempel_ziv_decomposition"
    /\ ~LoopExit(sequence, ind, inc)
    /\ Hashable(sub_str)
    /\ ~DictContains(sub_strings, sub_str)
    /\ sub_strings' = DictSetItem(sub_strings, sub_str, 0)
    /\ ind' = ind + 1
    /\ inc' = 1
    /\ UNCHANGED <<s, t, call, sequence, pc, ret>>

decomposition_insert ==
    /\ pc = "loop" /\ fn = "lempel_ziv_decomposition"
    /\ ~LoopExit(sequence, ind, inc)
    /\ Hashable(sub_str)
    /\ ~DictContains(sub_strings, sub_str)
    /\ sub_strings' = DictSetItem(sub_strings, sub_str, 0)
    /\ ind' = ind + inc
    /\ inc' = 1
    /\ UNCHANGED <<s, t, call, sequence, pc, ret>>

-----------------------------------------------------------------------------
(* lempel_ziv_complexity_slow *)

\* break; return len(sub_strings)
complexity_slow_break ==
    /\ pc = "loop" /\ fn = "lempel_ziv_complexity_slow"
    /\ LoopExit(sequence, ind, inc)
    /\ pc' = "done"
    /\ ret' = [ret EXCEPT ![call] = Returned(DictLen(sub_strings))]
    /\ UNCHANGED <<s, t, call, sequence, sub_strings, ind, inc>>

\* `sub_str in sub_strings` hashes sub_str: TypeError for an unhashable slice
complexity_slow_raise ==
    /\ pc = "loop" /\ fn = "lempel_ziv_complexity_slow"
    /\ ~LoopExit(sequence, ind, inc)
    /\ ~Hashable(sub_str)
    /\ pc' = "raised"
    /\ ret' = [ret EXCEPT ![call] = Raised("TypeError")]
    /\ UNCHANGED <<s, t, call, sequence, sub_strings, ind, inc>>

\* if sub_str in sub_strings: inc += 1
complexity_slow_hit ==
    /\ pc = "loop" /\ fn = "lempel_ziv_complexity_slow"
    /\ ~LoopExit(sequence, ind, inc)
    /\ Hashable(sub_str)
    /\ DictContains(sub_strings, sub_str)
    /\ inc' = inc + 1
    /\ UNCHANGED <<s, t, call, sequence, sub_strings, ind, pc, ret>>

\* else: sub_strings[sub_str] = 0; ind += inc; inc = 1
complexity_slow_insert_step_one ==
    /\ pc = "loop" /\ fn = "lempel_ziv_complexity_slow"
    /\ ~LoopExit(sequence, ind, inc)
    /\ Hashable(sub_str)
    /\ ~DictContains(sub_strings, sub_str)
    /\ sub_strings' = DictSetItem(sub_strings, sub_str, 0)
    /\ ind' = ind + 1
    /\ inc' = 1
    /\ UNCHANGED <<s, t, call, sequence, pc, ret>>

complexity_slow_insert ==
    /\ pc = "loop" /\ fn = "lempel_ziv_complexity_slow"
    /\ ~LoopExit(sequence, ind, inc)
    /\ Hashable(sub_str)
    /\ ~DictContains(sub_strings, sub_str)
    /\ sub_strings' = DictSetItem(sub_strings, sub_str, 0)
    /\ ind' = ind + inc
    /\ inc' = 1
    /\ UNCHANGED <<s, t, call, sequence, pc, ret>>

-----------------------------------------------------------------------------

Next ==
    \/ Call
    \/ decomposition_break
    \/ decomposition_raise
    \/ decomposition_hit
    \/ decomposition_insert
    \/ complexity_slow_break
    \/ complexity_slow_raise
    \/ complexity_slow_hit
    \/ complexity_slow_insert

Spec == Init /\ [][Next]_vars

\* The interpreter runs the single thread until the last call has ended.
FairSpec == Spec /\ WF_vars(Next)

-----------------------------------------------------------------------------
(* Vocabulary of the properties *)

RECURSIVE Flatten(_)
\* the concatenation of the contents of a sequence of phrases
Flatten(ps) == IF ps = <<>> THEN <<>> ELSE Head(ps).items \o Flatten(Tail(ps))

\* position in the input where phrase i of ps starts when phrases are laid end to end
StartOf(ps, i) == Len(Flatten(SubSeq(ps, 1, i - 1)))

\* the keys of dict d, as a set
KeySet(d) == {d[i].key : i \in 1..Len(d)}

IsPrefix(x, y) == Len(x) <= Len(y) /\ SubSeq(y, 1, Len(x)) = x

Earlier(ps, i) == {ps[j] : j \in 1..(i - 1)}

ReturnedBy(c) == ret[c].status = "returned"

InDecomposition == fn = "lempel_ziv_decomposition" /\ pc \in {"loop", "done"}

\* the phrases of the running (or just returned) call, in insertion order
phrases == DictKeys(sub_strings)

-----------------------------------------------------------------------------
(* C1: lempel_ziv_complexity_slow(x) equals the number of phrases of       *)
(* lempel_ziv_decomposition(x), for x = s (calls 1, 2) and x = s + t       *)
(* (calls 3, 4).                                                           *)
C1_ComplexityIsPhraseCount ==
    \A p \in {<<1, 2>>, <<3, 4>>} :
        (ReturnedBy(p[1]) /\ ReturnedBy(p[2]))
            => ret[p[2]].value = Len(ret[p[1]].value.items)

C1_Witness ==
    /\ ReturnedBy(1) /\ ReturnedBy(2)
    /\ len(s) = MaxLen
    /\ ret[2].value >= 2
    /\ Len(Flatten(ret[1].value.items)) < len(s)

-----------------------------------------------------------------------------
(* C2: the reference results of the literal inputs: the decomposition      *)
(* (call 1) and the complexity (call 2) of each of the six strings.        *)
Reference ==
    { <<Lit16, << <<1>>, <<0>>, <<0,1>>, <<1,1>>, <<1,0>>, <<1,1,0>>, <<0,0>>, <<0,1,0>> >>, 8>>,
      <<LitAlt, << <<1>>, <<0>>, <<1,0>>, <<1,0,1>>, <<0,1>>, <<0,1,0>>, <<1,0,1,0>> >>, 7>>,
      <<Lit22, << <<1>>, <<0>>, <<0,1>>, <<1,1>>, <<1,0>>, <<1,1,0>>, <<0,0>>, <<0,1,0>>,
                  <<0,0,0>> >>, 9>>,
      <<Lit24, << <<1>>, <<0>>, <<0,1>>, <<1,1>>, <<1,0>>, <<1,1,0>>, <<0,0>>, <<0,1,0>>,
                  <<0,0,0>>, <<0,1,0,1>> >>, 10>>,
      << <<0>>, << <<0>> >>, 1>>,
      << <<0,0,0,0>>, << <<0>>, <<0,0>> >>, 2>> }

-----------------------------------------------------------------------------
(* C3: when lempel_ziv_decomposition returns, its phrases laid end to end  *)
(* are contiguous sub-ranges of the input starting at position 0, so their *)
(* concatenation is a prefix of the input; it is the whole input exactly   *)
(* when the loop exits with inc = 1.                                       *)
C3_ConcatIsPrefix ==
    (pc = "done" /\ fn = "lempel_ziv_decomposition") =>
        LET ps == ret[call].value.items IN
        /\ \A i \in 1..Len(ps) :
               ps[i] = Slice(sequence, StartOf(ps, i), StartOf(ps, i) + len(ps[i]))
        /\ IsPrefix(Flatten(ps), sequence.items)
        /\ (Flatten(ps) = sequence.items) <=> (inc = 1)

C3_Witness ==
    /\ pc = "done" /\ fn = "lempel_ziv_decomposition"
    /\ inc > 1
    /\ Len(ret[call].value.items) >= 3
    /\ \E i \in 1..Len(ret[call].value.items) : len(ret[call].value.items[i]) >= 2

-----------------------------------------------------------------------------
(* C4: the phrases of lempel_ziv_decomposition are pairwise distinct by    *)
(* content, during the scan and in the returned list, and every step that  *)
(* advances the cursor inserts a candidate that was not yet a key.         *)
NoRepeat(ps) == \A i, j \in 1..Len(ps) : ps[i] = ps[j] => i = j

C4_Distinct ==
    /\ InDecomposition => NoRepeat(phrases)
    /\ \A c \in {1, 3} : ReturnedBy(c) => NoRepeat(ret[c].value.items)

C4_InsertOnlyNovel ==
    (fn = "lempel_ziv_decomposition" /\ pc = "loop" /\ call' = call /\ ind' # ind)
        => /\ sub_str \notin KeySet(sub_strings)
           /\ sub_strings' = Append(sub_strings, [key |-> sub_str, value |-> 0])

C4_PhrasesDistinct == [](C4_Distinct) /\ [][C4_InsertOnlyNovel]_vars

C4_Witness ==
    /\ pc = "done" /\ fn = "lempel_ziv_decomposition"
    /\ Len(phrases) >= 3
    /\ \E i \in 1..Len(phrases) : len(phrases[i]) >= 2
    /\ NoRepeat(ret[call].value.items)

-----------------------------------------------------------------------------
(* C5: for every finite input every call terminates and returns a result   *)
(* without raising; the empty sequence gives the empty decomposition and   *)
(* complexity 0, a single-symbol sequence gives one phrase.                *)
AllReturned == \A c \in 1..NumCalls : ReturnedBy(c)

C5_EdgeResults ==
    /\ (len(s) = 0 /\ ReturnedBy(1)) => ret[1].value.items = <<>>
    /\ (len(s) = 0 /\ ReturnedBy(2)) => ret[2].value = 0
    /\ (len(s) = 1 /\ ReturnedBy(1)) => ret[1].value.items = <<s>>
    /\ (len(s) = 1 /\ ReturnedBy(2)) => ret[2].value = 1

C5_TerminatesWithResult == <>(AllReturned) /\ [](C5_EdgeResults)

\* What the code does guarantee: every call ends, by returning or by raising,
\* and it returns whenever the slices of its argument are hashable.
AllEnded == call = NumCalls /\ pc \in {"done", "raised"}

C5_TerminatesOrRaises ==
    /\ <>(AllEnded)
    /\ [](AllEnded => (Hashable(s) \/ len(s) + Len(t) = 0 => AllReturned))
    /\ [](C5_EdgeResults)

-----------------------------------------------------------------------------
(* C6: both functions accept a list or an array of symbols as well as a    *)
(* string: no call ends with an error.                                     *)
C6_NoErrorOutcome == \A c \in 1..NumCalls : ret[c].status # "raised"

-----------------------------------------------------------------------------
(* C7: every phrase of lempel_ziv_decomposition is the shortest novel      *)
(* extension at its start position: it is not among the phrases emitted    *)
(* before it and each of its shorter windows is.  During the scan the      *)
(* cursor ind is the end of the last phrase and every window at ind        *)
(* shorter than inc is an emitted phrase.                                  *)
ShortestNovel(ps, seq) ==
    \A i \in 1..Len(ps) :
        LET st == StartOf(ps, i)
            L == len(ps[i])
        IN /\ L >= 1
           /\ ps[i] = Slice(seq, st, st + L)
           /\ ps[i] \notin Earlier(ps, i)
           /\ \A k \in 1..(L - 1) : Slice(seq, st, st + k) \in Earlier(ps, i)

C7_ShortestNovelExtension ==
    /\ InDecomposition =>
        /\ ShortestNovel(phrases, sequence)
        /\ ind = Len(Flatten(phrases))
        /\ inc >= 1
        /\ \A k \in 1..(inc - 1) : Slice(sequence, ind, ind + k) \in KeySet(sub_strings)
    /\ ReturnedBy(1) => ShortestNovel(ret[1].value.items, s)
    /\ ReturnedBy(3) => ShortestNovel(ret[3].value.items, Concat(s, t))

C7_Witness ==
    /\ pc = "done" /\ fn = "lempel_ziv_decomposition"
    /\ \E i \in 1..Len(phrases) : len(phrases[i]) >= 3
    /\ ret[call].value.items = phrases

-----------------------------------------------------------------------------
(* C8: when the loop stops the growing candidate is discarded: on exit     *)
(* ind + inc = n + 1, ind is the total length of the emitted phrases, the  *)
(* returned list / count is that of the emitted phrases only, and the      *)
(* trailing n - ind = inc - 1 symbols are in no phrase.                    *)
C8_TailDiscarded ==
    pc = "done" =>
        /\ ind + inc = n + 1
        /\ ind = Len(Flatten(phrases))
        /\ n - ind = inc - 1
        /\ fn = "lempel_ziv_decomposition" =>
               /\ ret[call].value.items = phrases
               /\ Len(Flatten(ret[call].value.items)) = n - (inc - 1)
        /\ fn = "lempel_ziv_complexity_slow" => ret[call].value = Len(phrases)

C8_Witness ==
    /\ pc = "done" /\ fn = "lempel_ziv_complexity_slow"
    /\ inc >= 3
    /\ n - ind = 2
    /\ ret[call].value >= 2

-----------------------------------------------------------------------------
(* C9: a non-empty uncovered tail sequence[ind:n] is equal in content to a *)
(* phrase of the decomposition, and so is every non-empty prefix of it.    *)
C9_TailRepeatsPhrase ==
    (pc = "done" /\ ind < n) =>
        /\ \A k \in 1..(n - ind) : Slice(sequence, ind, ind + k) \in KeySet(sub_strings)
        /\ fn = "lempel_ziv_decomposition" =>
               \A k \in 1..(n - ind) :
                   \E i \in 1..Len(ret[call].value.items) :
                       ret[call].value.items[i] = Slice(sequence, ind, ind + k)

C9_Witness ==
    /\ pc = "done" /\ fn = "lempel_ziv_decomposition"
    /\ n - ind >= 2
    /\ Slice(sequence, ind, n) \in KeySet(sub_strings)

-----------------------------------------------------------------------------
(* C10: the parse is prefix-stable: the decomposition of s is a prefix of  *)
(* the decomposition of s + t, so complexity(s + t) >= complexity(s); the  *)
(* inputs include t = s.                                                   *)
C10_PrefixStable ==
    /\ (ReturnedBy(1) /\ ReturnedBy(3)) =>
           IsPrefix(ret[1].value.items, ret[3].value.items)
    /\ (ReturnedBy(2) /\ ReturnedBy(4)) => ret[2].value <= ret[4].value

C10_Witness ==
    /\ AllReturned
    /\ t = s.items
    /\ len(s) >= 3
    /\ Len(ret[1].value.items) >= 2
    /\ ret[4].value > ret[2].value

====
